---------------------------- MODULE Spec2Model ----------------------------
(***************************************************************************)
(* Geofence MVP: the location-update request handler (backend/app/main.py),*)
(* the persistence layer it uses (backend/app/crud.py) and the Celery task *)
(* that records an alert and pushes it to the user's devices               *)
(* (backend/app/celery_app.py, backend/app/notifications.py).              *)
(*                                                                         *)
(* Tables are sequences of rows in primary-key order; ids are the          *)
(* auto-increment keys 1, 2, ...  No operation of the program deletes a    *)
(* row.  Each HTTP handler is one action: requests are served one after    *)
(* another with the database available.  The Celery task runs in a worker  *)
(* process, so it is a sequence of steps (one per database transaction or  *)
(* push call) that interleave with the requests, and its fallible calls    *)
(* take their outcome as an input.                                         *)
(*                                                                         *)
(* Numbers: latitudes and longitudes are in hundredths of a degree,        *)
(* distances and radii in millimetres.                                     *)
(***************************************************************************)
EXTENDS Integers, Sequences, FiniteSets, TLC

\* ------------------------------------------------------------- bounds
\* Rows the users and geofences tables may hold, and /location/update
\* requests served.
MaxUsers == 1
MaxGeofences == 1
MaxUpdates == 2
\* Rows of the geofences table where the choice among a user's geofences is
\* examined.
MaxGeofencesToSelectFrom == 2
\* Alert rows up to which the broker delivers a message again.
MaxRedeliveredAlerts == 2
\* Rows of the users table where devices change hands.
MaxDeviceOwners == 2

\* ------------------------------------------------------------- inputs
\* Coordinates a location update may carry: the grid points (10.00, 10.00),
\* (10.00, 10.01) and (10.01, 10.01).
Locations == {<<1000, 1000>>, <<1000, 1001>>, <<1001, 1001>>}
\* Centres a geofence may be created with.
Centers == {<<1000, 1000>>, <<1001, 1001>>}
\* The distance from (10.00, 10.01) to (10.00, 10.00) exactly: around a centre
\* at (10.00, 10.00) the three locations are inside, on the boundary and outside.
Radii == {1095056}
\* The same, and 100 m.
RadiiToSelectFrom == {100000, 1095056}
Platforms == {"android"}
PlatformsToRegister == {"android", "ios"}
Tokens == {"tokA", "tokB"}
\* What one call of send_fcm_notification can run into.
SendOutcomes == {"200", "no_project_id", "no_access_token", "http_error", "exception"}

\* Python's None, for a missing row and for "no alert yet".
None == 0

VARIABLES
    users,           \* table users: the set of ids
    geofences,       \* table geofences
    user_locations,  \* table user_locations
    alerts,          \* table alerts
    devices,         \* table devices
    queue,           \* the broker's queue of process_alert_task messages
    task,            \* the worker's execution of process_alert_task
    resp,            \* the last /location/update request and its response
    nupdates,        \* number of /location/update requests served
    inflight,        \* the /location/update requests being served concurrently
    registered       \* the last /devices/register request and its status

vars == <<users, geofences, user_locations, alerts, devices, queue, task, resp, nupdates,
          inflight, registered>>

store == <<users, geofences, user_locations, alerts, devices>>

\* ------------------------------------------------------------- geo math
\* haversine_distance_m on the grid {10.00, 10.01} x {10.00, 10.01}: the value the source's
\* formula returns (R = 6371000 m), in millimetres.
haversine_distance_m(lat1, lon1, lat2, lon2) ==
    CASE lat1 = lat2 /\ lon1 = lon2 -> 0
      [] lat1 = lat2 /\ lon1 # lon2 /\ lat1 = 1000 -> 1095056
      [] lat1 = lat2 /\ lon1 # lon2 /\ lat1 = 1001 -> 1095023
      [] lat1 # lat2 /\ lon1 = lon2 -> 1111949
      [] lat1 # lat2 /\ lon1 # lon2 -> 1560622

\* Variant: an exclusive boundary.
InsideStrict(distance, radius_m) == distance < radius_m

\* inside = distance <= gf.radius_m
Inside(distance, radius_m) == distance <= radius_m

\* Variant: the negation dropped.
AlertFlagSame(inside) == inside

\* alert = not inside
AlertFlag(inside) == ~inside

\* ------------------------------------------------------------- crud
\* Variant: no existence check.
get_user_always(user_id) == user_id

get_user(user_id) == IF user_id \in users THEN user_id ELSE None

\* Variant: the geofences of every user.
get_geofences_of_all_users(user_id) == geofences

\* Variant: the newest geofence first.
get_user_geofences_newest_first(user_id) ==
    LET rows == SelectSeq(geofences, LAMBDA g : g.user_id = user_id)
    IN  [k \in 1..Len(rows) |-> rows[Len(rows) + 1 - k]]

\* The query has no ORDER BY; InnoDB returns the rows of one user_id in
\* primary-key order, which is the order of creation.
get_user_geofences(user_id) ==
    SelectSeq(geofences, LAMBDA g : g.user_id = user_id)

\* The index of the row of user_id with the greatest id, 0 when there is none.
LastLocationIndex(rows, user_id) ==
    LET idx == {i \in 1..Len(rows) : rows[i].user_id = user_id}
    IN  IF idx = {} THEN 0 ELSE CHOOSE i \in idx : \A j \in idx : j <= i

UpsertRows(rows, user_id, lat, lon) ==
    LET i == LastLocationIndex(rows, user_id)
    IN  IF i # 0
        THEN [rows EXCEPT ![i].lat = lat, ![i].lon = lon]
        ELSE Append(rows, [id |-> Len(rows) + 1, user_id |-> user_id,
                           lat |-> lat, lon |-> lon])

\* Variant: an append-only log, no lookup of the existing row.
upsert_always_insert(user_id, lat, lon) ==
    Append(user_locations, [id |-> Len(user_locations) + 1, user_id |-> user_id,
                            lat |-> lat, lon |-> lon])

\* Variant: the write skipped when the user owns no geofence.
upsert_after_geofence_check(user_id, lat, lon) ==
    IF get_user_geofences(user_id) = <<>>
    THEN user_locations
    ELSE UpsertRows(user_locations, user_id, lat, lon)

\* The user_locations table after upsert_user_location.
upsert_user_location(user_id, lat, lon) ==
    UpsertRows(user_locations, user_id, lat, lon)

\* Variant: the row never reaches the table.
create_alert_uncommitted(user_id, geofence_id, message) == alerts

\* The alerts table after create_alert; the new row is the last one.
\* Variant: one row per user; an earlier alert of the user is deleted when a
\* new one is stored.
create_alert_latest_only(user_id, geofence_id, message) ==
    LET others == SelectSeq(alerts, LAMBDA a : a.user_id # user_id)
        next_id == IF alerts = <<>> THEN 1 ELSE alerts[Len(alerts)].id + 1
    IN  Append(others, [id |-> next_id, user_id |-> user_id,
                        geofence_id |-> geofence_id, message |-> message])

\* Variant: an alert equal to a stored one is not stored again.
create_alert_once(user_id, geofence_id, message) ==
    IF \E k \in 1..Len(alerts) : /\ alerts[k].user_id = user_id
                                  /\ alerts[k].geofence_id = geofence_id
                                  /\ alerts[k].message = message
    THEN alerts
    ELSE Append(alerts, [id |-> Len(alerts) + 1, user_id |-> user_id,
                         geofence_id |-> geofence_id, message |-> message])

create_alert(user_id, geofence_id, message) ==
    Append(alerts, [id |-> Len(alerts) + 1, user_id |-> user_id,
                    geofence_id |-> geofence_id, message |-> message])

\* Variant: the devices of every user.
get_devices_of_all_users(user_id) == devices

get_devices_for_user(user_id) ==
    SelectSeq(devices, LAMBDA d : d.user_id = user_id)

\* Variant: a new row for every registration.
register_device_always_insert(user_id, platform, fcm_token) ==
    Append(devices, [id |-> Len(devices) + 1, user_id |-> user_id,
                     platform |-> platform, fcm_token |-> fcm_token])

\* The devices table after crud.register_device.
register_device(user_id, platform, fcm_token) ==
    LET idx == {i \in 1..Len(devices) : devices[i].fcm_token = fcm_token}
    IN  IF idx # {}
        THEN LET i == CHOOSE k \in idx : \A j \in idx : k <= j
             IN  [devices EXCEPT ![i].user_id = user_id, ![i].platform = platform]
        ELSE Append(devices, [id |-> Len(devices) + 1, user_id |-> user_id,
                              platform |-> platform, fcm_token |-> fcm_token])

\* ------------------------------------------------------------- celery
Job(user_id, geofence_id, message) ==
    [user_id |-> user_id, geofence_id |-> geofence_id, message |-> message]

\* Variant: a job equal to a queued one is dropped.
delay_deduplicated(user_id, geofence_id, message) ==
    IF \E k \in 1..Len(queue) : queue[k] = Job(user_id, geofence_id, message)
    THEN queue
    ELSE Append(queue, Job(user_id, geofence_id, message))

\* The queue after process_alert_task.delay(user_id, gf.id, message).
delay(user_id, geofence_id, message) ==
    Append(queue, Job(user_id, geofence_id, message))

IdleTask ==
    [pc |-> "idle", user_id |-> None, geofence_id |-> None, message |-> "",
     alert_id |-> None, devices |-> <<>>, i |-> 0, sends |-> <<>>, error |-> "none"]

\* The request threads of the server, and one before it serves a request.
Requests == {"r1", "r2"}

\* What the query of upsert_user_location returns when there is no row.
NoRow == [id |-> None, user_id |-> None, lat |-> 0, lon |-> 0]

IdleRequest ==
    [pc |-> "idle", user_id |-> None, lat |-> 0, lon |-> 0, existing |-> NoRow,
     status |-> 0, inside |-> FALSE, distance_m |-> 0, alert |-> FALSE]

\* ------------------------------------------------------------- state
Init ==
    /\ users = {}
    /\ geofences = <<>>
    /\ user_locations = <<>>
    /\ alerts = <<>>
    /\ devices = <<>>
    /\ queue = <<>>
    /\ task = IdleTask
    /\ resp = [user_id |-> None, lat |-> 0, lon |-> 0, status |-> 0,
               inside |-> FALSE, distance_m |-> 0, alert |-> FALSE]
    /\ nupdates = 0
    /\ inflight = [r \in Requests |-> IdleRequest]
    /\ registered = [user_id |-> None, platform |-> "", fcm_token |-> "", status |-> 0]


\* ------------------------------------------------------------- requests
UserIds == 1..(MaxUsers + 1)

\* POST /users/, while the table holds fewer than n rows.
CreateUserUpTo(n) ==
    /\ Cardinality(users) < n
    /\ users' = users \cup {Cardinality(users) + 1}
    /\ UNCHANGED <<geofences, user_locations, alerts, devices, queue, task, resp, nupdates, inflight, registered>>

CreateUser == CreateUserUpTo(MaxUsers)

\* POST /geofences/ : 404 and no change when the user does not exist; while
\* the table holds fewer than n rows.
CreateGeofenceUpTo(n, user_id, center, radius_m) ==
    /\ Len(geofences) < n
    /\ geofences' =
          IF get_user(user_id) = None
          THEN geofences
          ELSE Append(geofences, [id |-> Len(geofences) + 1, user_id |-> user_id,
                                  center_lat |-> center[1], center_lon |-> center[2],
                                  radius_m |-> radius_m])
    /\ UNCHANGED <<users, user_locations, alerts, devices, queue, task, resp, nupdates, inflight, registered>>

CreateGeofence(user_id, center, radius_m) ==
    CreateGeofenceUpTo(MaxGeofences, user_id, center, radius_m)

\* POST /devices/register : 404 and no change when the user does not exist.
RegisterDevice(user_id, platform, fcm_token) ==
    /\ devices' =
          IF get_user(user_id) = None
          THEN devices
          ELSE register_device(user_id, platform, fcm_token)
    /\ UNCHANGED <<users, geofences, user_locations, alerts, queue, task, resp, nupdates, inflight, registered>>

\* The same handler, with the request and its status kept.
RegisterDeviceAnswered(user_id, platform, fcm_token) ==
    /\ devices' =
          IF get_user(user_id) = None
          THEN devices
          ELSE register_device(user_id, platform, fcm_token)
    /\ registered' = [user_id |-> user_id, platform |-> platform,
                      fcm_token |-> fcm_token,
                      status |-> IF get_user(user_id) = None THEN 404 ELSE 200]
    /\ UNCHANGED <<users, geofences, user_locations, alerts, queue, task, resp, nupdates, inflight>>

Message == "User is outside geofenced area"

Response(user_id, lat, lon, status, inside, distance, alert) ==
    [user_id |-> user_id, lat |-> lat, lon |-> lon, status |-> status,
     inside |-> inside, distance_m |-> distance, alert |-> alert]

\* The handler with process_alert_task(...) called in place of .delay(...):
\* the alert is written inside the request, and its failure is the request's.
update_location_calls_task(user_id, lat, lon) ==
    /\ nupdates < MaxUpdates
    /\ nupdates' = nupdates + 1
    /\ UNCHANGED <<users, geofences, devices, task, queue, inflight, registered>>
    /\ IF get_user(user_id) = None
       THEN /\ resp' = Response(user_id, lat, lon, 404, FALSE, 0, FALSE)
            /\ UNCHANGED <<user_locations, alerts>>
       ELSE /\ user_locations' = UpsertRows(user_locations, user_id, lat, lon)
            /\ LET gfs == get_user_geofences(user_id)
               IN  IF gfs = <<>>
                   THEN /\ resp' = Response(user_id, lat, lon, 400, FALSE, 0, FALSE)
                        /\ UNCHANGED alerts
                   ELSE LET gf == gfs[1]
                            distance == haversine_distance_m(lat, lon,
                                            gf.center_lat, gf.center_lon)
                            inside == Inside(distance, gf.radius_m)
                            alert == AlertFlag(inside)
                        IN  \E fails \in BOOLEAN :
                              IF alert /\ fails
                              THEN /\ alerts' = alerts
                                   /\ resp' = Response(user_id, lat, lon, 500,
                                                       FALSE, 0, FALSE)
                              ELSE /\ alerts' = IF alert
                                                THEN create_alert(user_id, gf.id, Message)
                                                ELSE alerts
                                   /\ resp' = Response(user_id, lat, lon, 200,
                                                       inside, distance, alert)

\* Variant: an update that finds the user inside again cancels the user's
\* queued jobs.
update_location_cancels_when_inside(user_id, lat, lon) ==
    /\ nupdates < MaxUpdates
    /\ nupdates' = nupdates + 1
    /\ UNCHANGED <<users, geofences, alerts, devices, task, inflight, registered>>
    /\ IF get_user(user_id) = None
       THEN /\ resp' = Response(user_id, lat, lon, 404, FALSE, 0, FALSE)
            /\ UNCHANGED <<user_locations, queue>>
       ELSE /\ user_locations' = UpsertRows(user_locations, user_id, lat, lon)
            /\ LET gfs == get_user_geofences(user_id)
               IN  IF gfs = <<>>
                   THEN /\ resp' = Response(user_id, lat, lon, 400, FALSE, 0, FALSE)
                        /\ UNCHANGED queue
                   ELSE LET gf == gfs[1]
                            distance == haversine_distance_m(lat, lon,
                                            gf.center_lat, gf.center_lon)
                            inside == Inside(distance, gf.radius_m)
                            alert == AlertFlag(inside)
                        IN  /\ queue' = IF alert
                                        THEN delay(user_id, gf.id, Message)
                                        ELSE SelectSeq(queue,
                                                 LAMBDA j : j.user_id # user_id)
                            /\ resp' = Response(user_id, lat, lon, 200,
                                                inside, distance, alert)

\* POST /location/update
update_location(user_id, lat, lon) ==
    /\ nupdates < MaxUpdates
    /\ nupdates' = nupdates + 1
    /\ UNCHANGED <<users, geofences, alerts, devices, task, inflight, registered>>
    /\ IF get_user(user_id) = None
       THEN /\ resp' = Response(user_id, lat, lon, 404, FALSE, 0, FALSE)
            /\ UNCHANGED <<user_locations, queue>>
       ELSE /\ user_locations' = upsert_user_location(user_id, lat, lon)
            /\ LET gfs == get_user_geofences(user_id)
               IN  IF gfs = <<>>
                   THEN /\ resp' = Response(user_id, lat, lon, 400, FALSE, 0, FALSE)
                        /\ UNCHANGED queue
                   ELSE LET gf == gfs[1]
                            distance == haversine_distance_m(lat, lon,
                                            gf.center_lat, gf.center_lon)
                            inside == Inside(distance, gf.radius_m)
                            alert == AlertFlag(inside)
                        IN  /\ queue' = IF alert
                                        THEN delay(user_id, gf.id, Message)
                                        ELSE queue
                            /\ resp' = Response(user_id, lat, lon, 200,
                                                inside, distance, alert)

\* ------------------------------------------------------------- the task
Title == "Geofence Alert"

TaskRunning == task.pc \in {"created", "sending"}

\* The task's state once an exception has left it: its locals are gone, the
\* result backend holds FAILURE and the exception.
Failed(error) == [IdleTask EXCEPT !.pc = "failed", !.error = error]

\* str(v) of the data payload's values.
str(v) ==
    CASE v = 0 -> "0" [] v = 1 -> "1" [] v = 2 -> "2" [] v = 3 -> "3"
      [] v = 4 -> "4" [] v = 5 -> "5" [] v = 6 -> "6" [] v = 7 -> "7"

\* The worker takes the next message and runs step 1, crud.create_alert.
\* When the commit fails the exception leaves the task: it ends failed.
process_alert_create(fails) ==
    /\ ~TaskRunning
    /\ queue # <<>>
    /\ queue' = Tail(queue)
    /\ LET job == Head(queue)
           started == [IdleTask EXCEPT !.user_id = job.user_id,
                                       !.geofence_id = job.geofence_id,
                                       !.message = job.message]
       IN  IF fails
           THEN /\ alerts' = alerts
                /\ task' = Failed("create_alert")
           ELSE /\ alerts' = create_alert(job.user_id, job.geofence_id, job.message)
                /\ task' = [started EXCEPT !.pc = "created",
                                           !.alert_id = Len(alerts')]
    /\ UNCHANGED <<users, geofences, user_locations, devices, resp, nupdates, inflight, registered>>

\* Step 2, crud.get_devices_for_user: no handler around it either.
process_alert_fetch(fails) ==
    /\ task.pc = "created"
    /\ task' = IF fails
               THEN Failed("get_devices_for_user")
               ELSE [task EXCEPT !.pc = "sending", !.i = 1,
                                 !.devices = get_devices_for_user(task.user_id)]
    /\ UNCHANGED <<users, geofences, user_locations, alerts, devices, queue, resp, nupdates, inflight, registered>>

\* Variant: the notification's title and body in each other's place.
send_fcm_notification_body_first(token, title, body, data, outcome) ==
    [token |-> token, title |-> body, body |-> title,
     data |-> [alert_id |-> str(data.alert_id), user_id |-> str(data.user_id),
               geofence_id |-> str(data.geofence_id)],
     ok |-> (outcome = "200")]

\* What send_fcm_notification posts and returns for one device.
send_fcm_notification(token, title, body, data, outcome) ==
    [token |-> token, title |-> title, body |-> body,
     data |-> [alert_id |-> str(data.alert_id), user_id |-> str(data.user_id),
               geofence_id |-> str(data.geofence_id)],
     ok |-> (outcome = "200")]

\* Variant: the loop broken off at the first failed send.
process_alert_send_stop_on_failure(outcome) ==
    /\ task.pc = "sending"
    /\ task.i <= Len(task.devices)
    /\ LET sent == send_fcm_notification(task.devices[task.i].fcm_token, Title,
                       task.message,
                       [alert_id |-> task.alert_id, user_id |-> task.user_id,
                        geofence_id |-> IF task.geofence_id = None THEN 0
                                        ELSE task.geofence_id],
                       outcome)
       IN  task' = [task EXCEPT !.sends = Append(@, sent),
                                !.i = IF sent.ok THEN @ + 1 ELSE Len(task.devices) + 1]
    /\ UNCHANGED <<users, geofences, user_locations, alerts, devices, queue, resp, nupdates, inflight, registered>>

\* Step 3, one turn of the loop over the fetched devices. The boolean that
\* send_fcm_notification returns is dropped.
process_alert_send(outcome) ==
    /\ task.pc = "sending"
    /\ task.i <= Len(task.devices)
    /\ LET sent == send_fcm_notification(task.devices[task.i].fcm_token, Title,
                       task.message,
                       [alert_id |-> task.alert_id, user_id |-> task.user_id,
                        geofence_id |-> IF task.geofence_id = None THEN 0
                                        ELSE task.geofence_id],
                       outcome)
       IN  task' = [task EXCEPT !.sends = Append(@, sent), !.i = @ + 1]
    /\ UNCHANGED <<users, geofences, user_locations, alerts, devices, queue, resp, nupdates, inflight, registered>>

\* The loop is over: finally db.close(), and the task returns None; its
\* locals are gone and the result backend holds SUCCESS.
process_alert_done ==
    /\ task.pc = "sending"
    /\ task.i > Len(task.devices)
    /\ task' = [IdleTask EXCEPT !.pc = "succeeded"]
    /\ UNCHANGED <<users, geofences, user_locations, alerts, devices, queue, resp, nupdates, inflight, registered>>

\* ------------------------------------------------------------- specification
Next ==
    \/ CreateUser
    \/ \E u \in UserIds, c \in Centers, r \in Radii : CreateGeofence(u, c, r)
    \/ \E u \in UserIds, p \in Platforms, t \in Tokens : RegisterDevice(u, p, t)
    \/ \E u \in UserIds, l \in Locations : update_location(u, l[1], l[2])
    \/ \E f \in BOOLEAN : process_alert_create(f)
    \/ \E f \in BOOLEAN : process_alert_fetch(f)
    \/ \E o \in SendOutcomes : process_alert_send(o)
    \/ process_alert_done

Spec == Init /\ [][Next]_vars

\* The worker: the steps of process_alert_task.
Worker ==
    \/ \E f \in BOOLEAN : process_alert_create(f)
    \/ \E f \in BOOLEAN : process_alert_fetch(f)
    \/ \E o \in SendOutcomes : process_alert_send(o)
    \/ process_alert_done

\* The worker process runs as long as the application does: a step of the
\* task that can be taken is taken.
NextFair ==
    \/ CreateUser
    \/ \E u \in UserIds, c \in Centers, r \in Radii : CreateGeofence(u, c, r)
    \/ \E u \in UserIds, p \in Platforms : RegisterDevice(u, p, "tokA")
    \/ \E u \in UserIds, l \in Locations : update_location(u, l[1], l[2])
    \/ Worker

SpecFair == Init /\ [][NextFair]_vars /\ WF_vars(Worker)

\* ------------------------------------------------------------- concurrent requests
\* update_location served by several request threads at once.  A thread's
\* session reads get_user and the upsert's query from the snapshot its first
\* SELECT opens; db.commit() writes; the next query, get_user_geofences, reads
\* the table as it is then.

\* Thread r takes a request: get_user and the query of upsert_user_location.
req_begin(r, user_id, lat, lon) ==
    /\ inflight[r].pc \in {"idle", "done"}
    /\ nupdates < MaxUpdates
    /\ nupdates' = nupdates + 1
    /\ LET i == LastLocationIndex(user_locations, user_id)
           request == [IdleRequest EXCEPT !.user_id = user_id, !.lat = lat, !.lon = lon]
       IN  inflight' = [inflight EXCEPT ![r] =
              IF get_user(user_id) = None
              THEN [request EXCEPT !.pc = "done", !.status = 404]
              ELSE [request EXCEPT !.pc = "upsert",
                       !.existing = IF i = 0 THEN NoRow ELSE user_locations[i]]]
    /\ UNCHANGED <<users, geofences, user_locations, alerts, devices, queue, task, resp, registered>>

\* The row with primary key id after the UPDATE the session flushes for the
\* loaded row: only the columns whose value differs from the loaded one.
FlushUpdate(rows, loaded, lat, lon) ==
    [k \in 1..Len(rows) |->
        IF rows[k].id = loaded.id
        THEN [rows[k] EXCEPT !.lat = IF lat # loaded.lat THEN lat ELSE @,
                             !.lon = IF lon # loaded.lon THEN lon ELSE @]
        ELSE rows[k]]

\* db.commit() of upsert_user_location: the UPDATE of the loaded row, or the
\* INSERT of a new one when the query found none.
req_commit(r) ==
    /\ inflight[r].pc = "upsert"
    /\ LET q == inflight[r]
       IN  user_locations' =
              IF q.existing.id # None
              THEN FlushUpdate(user_locations, q.existing, q.lat, q.lon)
              ELSE Append(user_locations,
                          [id |-> Len(user_locations) + 1, user_id |-> q.user_id,
                           lat |-> q.lat, lon |-> q.lon])
    /\ inflight' = [inflight EXCEPT ![r].pc = "evaluate"]
    /\ UNCHANGED <<users, geofences, alerts, devices, queue, task, resp, nupdates, registered>>

\* Variant: the containment check made on the stored location read back.
req_respond_from_stored(r) ==
    /\ inflight[r].pc = "evaluate"
    /\ LET q == inflight[r]
           gfs == get_user_geofences(q.user_id)
           row == user_locations[LastLocationIndex(user_locations, q.user_id)]
       IN  IF gfs = <<>>
           THEN /\ inflight' = [inflight EXCEPT ![r].pc = "done", ![r].status = 400]
                /\ UNCHANGED queue
           ELSE LET gf == gfs[1]
                    distance == haversine_distance_m(row.lat, row.lon,
                                    gf.center_lat, gf.center_lon)
                    inside == Inside(distance, gf.radius_m)
                    alert == AlertFlag(inside)
                IN  /\ queue' = IF alert THEN delay(q.user_id, gf.id, Message) ELSE queue
                    /\ inflight' = [inflight EXCEPT ![r].pc = "done",
                                       ![r].status = 200, ![r].inside = inside,
                                       ![r].distance_m = distance, ![r].alert = alert]
    /\ UNCHANGED <<users, geofences, user_locations, alerts, devices, task, resp, nupdates, registered>>

\* The rest of the handler: get_user_geofences, the containment check, the
\* enqueue and the response.
req_respond(r) ==
    /\ inflight[r].pc = "evaluate"
    /\ LET q == inflight[r]
           gfs == get_user_geofences(q.user_id)
       IN  IF gfs = <<>>
           THEN /\ inflight' = [inflight EXCEPT ![r].pc = "done", ![r].status = 400]
                /\ UNCHANGED queue
           ELSE LET gf == gfs[1]
                    distance == haversine_distance_m(q.lat, q.lon,
                                    gf.center_lat, gf.center_lon)
                    inside == Inside(distance, gf.radius_m)
                    alert == AlertFlag(inside)
                IN  /\ queue' = IF alert THEN delay(q.user_id, gf.id, Message) ELSE queue
                    /\ inflight' = [inflight EXCEPT ![r].pc = "done",
                                       ![r].status = 200, ![r].inside = inside,
                                       ![r].distance_m = distance, ![r].alert = alert]
    /\ UNCHANGED <<users, geofences, user_locations, alerts, devices, task, resp, nupdates, registered>>

NextConcurrent ==
    \/ CreateUser
    \/ \E u \in UserIds, c \in Centers, r \in Radii : CreateGeofence(u, c, r)
    \/ \E r \in Requests, u \in UserIds, l \in Locations : req_begin(r, u, l[1], l[2])
    \/ \E r \in Requests : req_commit(r)
    \/ \E r \in Requests : req_respond(r)

SpecConcurrent == Init /\ [][NextConcurrent]_vars

\* ------------------------------------------------------------- several geofences
\* The requests alone, with users who may own more than one geofence.
NextSelect ==
    \/ CreateUser
    \/ \E u \in UserIds, c \in Centers, r \in RadiiToSelectFrom :
          CreateGeofenceUpTo(MaxGeofencesToSelectFrom, u, c, r)
    \/ \E u \in UserIds, l \in Locations : update_location(u, l[1], l[2])

SpecSelect == Init /\ [][NextSelect]_vars

\* ------------------------------------------------------------- device registration
\* Registrations one after another, by users who take over each other's tokens.
NextDevices ==
    \/ CreateUserUpTo(MaxDeviceOwners)
    \/ \E u \in 1..(MaxDeviceOwners + 1), p \in PlatformsToRegister, t \in Tokens :
          RegisterDeviceAnswered(u, p, t)

SpecDevices == Init /\ [][NextDevices]_vars

\* ------------------------------------------------------------- redelivery
\* The broker delivers a message whose acknowledgement it has not seen once
\* more: the worker runs the task on the head of the queue, which stays.
process_alert_redelivered(fails) ==
    /\ ~TaskRunning
    /\ queue # <<>>
    /\ Len(alerts) < MaxRedeliveredAlerts
    /\ queue' = queue
    /\ LET job == Head(queue)
           started == [IdleTask EXCEPT !.user_id = job.user_id,
                                       !.geofence_id = job.geofence_id,
                                       !.message = job.message]
       IN  IF fails
           THEN /\ alerts' = alerts
                /\ task' = Failed("create_alert")
           ELSE /\ alerts' = create_alert(job.user_id, job.geofence_id, job.message)
                /\ task' = [started EXCEPT !.pc = "created",
                                           !.alert_id = Len(alerts')]
    /\ UNCHANGED <<users, geofences, user_locations, devices, resp, nupdates, inflight, registered>>

NextRedelivery ==
    \/ CreateUser
    \/ \E u \in UserIds, c \in Centers, r \in Radii : CreateGeofence(u, c, r)
    \/ \E u \in UserIds, p \in Platforms : RegisterDevice(u, p, "tokA")
    \/ \E u \in UserIds, l \in Locations : update_location(u, l[1], l[2])
    \/ \E f \in BOOLEAN : process_alert_create(f)
    \/ \E f \in BOOLEAN : process_alert_redelivered(f)
    \/ \E f \in BOOLEAN : process_alert_fetch(f)
    \/ \E o \in SendOutcomes : process_alert_send(o)
    \/ process_alert_done

SpecRedelivery == Init /\ [][NextRedelivery]_vars

\* ------------------------------------------------------------- devices of a waiting job
\* Devices are registered, and change hands, while a job of user 1 waits:
\* after its enqueue and before the task has fetched the user's devices.
NextReregister ==
    \/ CreateUserUpTo(MaxDeviceOwners)
    \/ \E c \in Centers, r \in Radii : CreateGeofence(1, c, r)
    \/ \E u \in 1..MaxDeviceOwners, p \in Platforms, t \in Tokens :
          /\ queue # <<>> \/ task.pc = "created"
          /\ RegisterDeviceAnswered(u, p, t)
    \/ \E l \in Locations : update_location(1, l[1], l[2])
    \/ Worker

SpecReregister == Init /\ [][NextReregister]_vars

\* ------------------------------------------------------------- alerts of several users
\* Several users with geofences of their own, their location updates, and the
\* task on the jobs these enqueue. No device is registered, so the task's
\* loop has no turn.
NextOrigin ==
    \/ CreateUserUpTo(MaxDeviceOwners)
    \/ \E u \in 1..MaxDeviceOwners, c \in Centers, r \in Radii :
          CreateGeofenceUpTo(MaxGeofencesToSelectFrom, u, c, r)
    \/ \E u \in 1..(MaxDeviceOwners + 1), l \in Locations :
          update_location(u, l[1], l[2])
    \/ \E f \in BOOLEAN : process_alert_create(f)
    \/ \E f \in BOOLEAN : process_alert_fetch(f)
    \/ process_alert_done

SpecOrigin == Init /\ [][NextOrigin]_vars

\* ------------------------------------------------------------- properties
\* A step that serves one /location/update request.
UpdateStep == nupdates' = nupdates + 1

OwnsGeofence(user_id) == \E k \in 1..Len(geofences) : geofences[k].user_id = user_id

\* The earliest-created geofence of a user who owns one.
SelectedGeofence(user_id) ==
    LET idx == {k \in 1..Len(geofences) : geofences[k].user_id = user_id}
    IN  geofences[CHOOSE k \in idx : \A j \in idx : k <= j]

RowsOf(rows, user_id) == SelectSeq(rows, LAMBDA r : r.user_id = user_id)

\* C1: a location update of an existing user who owns a geofence is answered
\* 200 with alert = NOT inside; it appends exactly one job (the request's
\* user_id, the selected geofence's id, "User is outside geofenced area") to
\* the queue when the location is outside, and leaves the queue alone when
\* it is inside.
C1_AlertIffOutsideEnqueuesOnce ==
    [][(UpdateStep /\ resp'.user_id \in users /\ OwnsGeofence(resp'.user_id)) =>
          /\ resp'.status = 200
          /\ resp'.alert = ~resp'.inside
          /\ queue' = IF resp'.inside
                      THEN queue
                      ELSE Append(queue,
                             [user_id |-> resp'.user_id,
                              geofence_id |-> SelectedGeofence(resp'.user_id).id,
                              message |-> "User is outside geofenced area"])]_vars

C1_Witness ==
    /\ resp.status = 200
    /\ ~resp.inside
    /\ resp.alert
    /\ queue # <<>>
    /\ queue[Len(queue)].user_id = resp.user_id

\* C2: a location update of an existing user who owns no geofence is answered
\* 400, the user's stored location holds the request's coordinates afterwards
\* and no job is enqueued.
C2_NoGeofenceStillWritesLocation ==
    [][(UpdateStep /\ resp'.user_id \in users /\ ~OwnsGeofence(resp'.user_id)) =>
          /\ resp'.status = 400
          /\ \E k \in 1..Len(user_locations') :
                /\ user_locations'[k].user_id = resp'.user_id
                /\ user_locations'[k].lat = resp'.lat
                /\ user_locations'[k].lon = resp'.lon
          /\ queue' = queue]_vars

C2_Witness ==
    /\ resp.status = 400
    /\ queue = <<>>
    /\ \E k \in 1..Len(user_locations) :
          /\ user_locations[k].user_id = resp.user_id
          /\ user_locations[k].lat = resp.lat
          /\ user_locations[k].lon = resp.lon

\* C3: a location update whose user_id is no existing user is answered 404
\* and changes no table, enqueues no job and starts no task.
C3_UnknownUserChangesNothing ==
    [][(UpdateStep /\ resp'.user_id \notin users) =>
          /\ resp'.status = 404
          /\ UNCHANGED store
          /\ UNCHANGED <<queue, task>>]_vars

C3_Witness ==
    /\ resp.status = 404
    /\ users # {}
    /\ geofences # <<>>

\* C4: in a 200 response inside is true exactly when the distance is at most
\* the selected geofence's radius; at distance exactly the radius the point is
\* inside and no alert is raised.
C4_InclusiveBoundary ==
    resp.status = 200 =>
        LET r == SelectedGeofence(resp.user_id).radius_m
        IN  /\ resp.inside = (resp.distance_m <= r)
            /\ (resp.distance_m = r => resp.inside /\ ~resp.alert)

C4_Witness ==
    /\ resp.status = 200
    /\ resp.distance_m > 0
    /\ resp.distance_m = SelectedGeofence(resp.user_id).radius_m
    /\ resp.inside
    /\ ~resp.alert

\* C5: every update that evaluates as outside adds a job of its own to the
\* queue, whatever the earlier updates did and whatever is queued already.
C5_NoSuppression ==
    [][(UpdateStep /\ resp'.status = 200 /\ ~resp'.inside) =>
          /\ Len(queue') = Len(queue) + 1
          /\ SubSeq(queue', 1, Len(queue)) = queue
          /\ queue'[Len(queue')].user_id = resp'.user_id]_vars

\* Two consecutive outside updates of one user, two equal jobs queued.
C5_Witness ==
    /\ nupdates = 2
    /\ Len(queue) = 2
    /\ queue[1] = queue[2]
    /\ task.pc = "idle"

\* The alerts row a running task wrote: its own job's fields under alert_id.
TaskAlertCommitted ==
    /\ task.alert_id \in 1..Len(alerts)
    /\ alerts[task.alert_id] = [id |-> task.alert_id, user_id |-> task.user_id,
                                geofence_id |-> task.geofence_id,
                                message |-> task.message]

\* A step in which the worker takes a job off the queue.
TaskStartStep == queue # <<>> /\ queue' = Tail(queue)

\* C6: a send is attempted only by a task whose Alert row is committed; a task
\* that starts without its Alert row being added ends failed at once, with no
\* send attempted.
C6_AlertCommittedBeforeSend ==
    [][/\ (task'.sends # task.sends /\ task'.sends # <<>>) =>
              (task.pc = "sending" /\ TaskAlertCommitted)
       /\ (TaskStartStep /\ Len(alerts') = Len(alerts)) =>
              (task'.pc = "failed" /\ task'.sends = <<>>)
       /\ (TaskStartStep /\ task'.pc # "failed") =>
              (task'.sends = <<>> /\ TaskAlertCommitted')]_vars

C6_Witness ==
    /\ task.pc = "sending"
    /\ task.sends # <<>>
    /\ TaskAlertCommitted

\* C7: the task fetches every device row of its user; when it ends, each
\* fetched device has had exactly one send, in order, whichever sends failed;
\* the task adds one Alert row when it starts and none afterwards.
C7_SendsAreIndependent ==
    [][/\ (task.pc = "created" /\ task'.pc = "sending") =>
              task'.devices = RowsOf(devices, task.user_id)
       /\ (task.pc = "sending" /\ task'.pc = "succeeded") =>
              /\ Len(task.sends) = Len(task.devices)
              /\ \A k \in 1..Len(task.devices) :
                    task.sends[k].token = task.devices[k].fcm_token
       /\ (TaskStartStep /\ task'.pc = "created") => Len(alerts') = Len(alerts) + 1
       /\ (task.pc \in {"created", "sending"}) => alerts' = alerts]_vars

\* Two devices fetched, the first send failed, the second was still made.
C7_Witness ==
    /\ task.pc = "sending"
    /\ Len(task.devices) = 2
    /\ Len(task.sends) = 2
    /\ ~task.sends[1].ok
    /\ task.sends[2].token = task.devices[2].fcm_token

\* C8: the task ends failed only when create_alert failed.
C8_FailsOnlyOnAlertPersistence ==
    task.pc = "failed" => task.error = "create_alert"

C10_LocationUpsert ==
    [][/\ (UpdateStep /\ resp'.status = 200) =>
              LET mine == RowsOf(user_locations', resp'.user_id)
              IN  /\ Len(mine) = 1
                  /\ mine[1].lat = resp'.lat
                  /\ mine[1].lon = resp'.lon
                  /\ \A u \in UserIds \ {resp'.user_id} :
                        RowsOf(user_locations', u) = RowsOf(user_locations, u)
       /\ ~UpdateStep => user_locations' = user_locations]_vars

\* Two 200 updates of one user (both outside, so both queued), one row.
C10_Witness ==
    /\ nupdates = 2
    /\ Len(queue) = 2
    /\ queue[1].user_id = queue[2].user_id
    /\ resp.status = 200
    /\ Len(RowsOf(user_locations, resp.user_id)) = 1
    /\ RowsOf(user_locations, resp.user_id)[1].lat = resp.lat
    /\ RowsOf(user_locations, resp.user_id)[1].lon = resp.lon

\* C11: once no request is being served, every user with a served update has
\* exactly one user_locations row, and it holds the coordinates of one of the
\* requests the threads served last.
C11_ConcurrentUpdatesLeaveOneRow ==
    (\A r \in Requests : inflight[r].pc \in {"idle", "done"}) =>
        \A r \in Requests :
            (inflight[r].pc = "done" /\ inflight[r].status # 404) =>
                LET mine == RowsOf(user_locations, inflight[r].user_id)
                IN  /\ Len(mine) = 1
                    /\ \E q \in Requests :
                          /\ inflight[q].pc = "done"
                          /\ inflight[q].user_id = inflight[r].user_id
                          /\ mine[1].lat = inflight[q].lat
                          /\ mine[1].lon = inflight[q].lon

\* C12: a 200 update is evaluated against the earliest-created geofence of
\* its user and the job it enqueues carries that geofence's id; a geofence
\* created later never changes which geofence of a user is the selected one.
C12_FirstCreatedGeofenceSelected ==
    [][/\ (UpdateStep /\ resp'.status = 200) =>
              LET gf == SelectedGeofence(resp'.user_id)
              IN  /\ resp'.distance_m = haversine_distance_m(resp'.lat, resp'.lon,
                                            gf.center_lat, gf.center_lon)
                  /\ resp'.inside = (resp'.distance_m <= gf.radius_m)
                  /\ resp'.alert =>
                        /\ Len(queue') = Len(queue) + 1
                        /\ queue'[Len(queue')].geofence_id = gf.id
       /\ \A u \in UserIds :
              OwnsGeofence(u) => SelectedGeofence(u)' = SelectedGeofence(u)]_vars

\* The user owns two geofences that disagree on the location: the answer and
\* the queued job are those of the first.
C12_Witness ==
    /\ resp.status = 200
    /\ resp.alert
    /\ queue # <<>>
    /\ queue[Len(queue)].geofence_id = 1
    /\ Len(geofences) = 2
    /\ geofences[1].user_id = resp.user_id
    /\ geofences[2].user_id = resp.user_id
    /\ haversine_distance_m(resp.lat, resp.lon, geofences[2].center_lat,
                            geofences[2].center_lon) <= geofences[2].radius_m

\* The rows of the devices table that carry a token.
RowsWithToken(rows, fcm_token) == SelectSeq(rows, LAMBDA d : d.fcm_token = fcm_token)

\* C13: no token has two Device rows; after a registration answered 200 the
\* one row of its token carries the request's user and platform, it is the
\* row the token had before when it had one (same id, no row added), and the
\* rows of the other tokens are as before; a 404 registration and the other
\* steps leave the table alone.
C13_DeviceUpsertByToken ==
    [][/\ \A t \in Tokens : Len(RowsWithToken(devices', t)) <= 1
       /\ (registered' # registered /\ registered'.status = 200) =>
              LET t == registered'.fcm_token
                  before == RowsWithToken(devices, t)
                  after == RowsWithToken(devices', t)
              IN  /\ Len(after) = 1
                  /\ after[1].user_id = registered'.user_id
                  /\ after[1].platform = registered'.platform
                  /\ before # <<>> =>
                        (after[1].id = before[1].id /\ Len(devices') = Len(devices))
                  /\ \A o \in Tokens \ {t} :
                        RowsWithToken(devices', o) = RowsWithToken(devices, o)
       /\ (registered' = registered \/ registered'.status # 200) =>
              devices' = devices]_vars

\* Token tokA got row 1 before tokB got row 2, and has been registered again
\* since: row 1 carries the user and platform of that last registration.
C13_Witness ==
    /\ Len(devices) = 2
    /\ devices[1].fcm_token = "tokA"
    /\ devices[1].user_id = 2
    /\ devices[1].platform = "ios"
    /\ registered = [user_id |-> 2, platform |-> "ios", fcm_token |-> "tokA",
                     status |-> 200]

\* A step in which the worker starts the task on a message and crud.create_alert
\* commits.
DeliveryStep == ~TaskRunning /\ task'.pc = "created"

\* C14: a delivery, first or repeated, adds exactly one Alert row, with the
\* user_id, geofence_id and message of the delivered job; Alert rows are added
\* by nothing else; and no step of the worker touches a User, Geofence, Device
\* or UserLocation row or an Alert row stored before.
C14_RedeliveryOnlyDuplicatesAlerts ==
    [][/\ DeliveryStep =>
              /\ queue # <<>>
              /\ queue' \in {queue, Tail(queue)}
              /\ alerts' = Append(alerts, [id |-> Len(alerts) + 1,
                                           user_id |-> Head(queue).user_id,
                                           geofence_id |-> Head(queue).geofence_id,
                                           message |-> Head(queue).message])
       /\ alerts' # alerts => DeliveryStep
       /\ task' # task =>
              /\ UNCHANGED <<users, geofences, devices, user_locations>>
              /\ Len(alerts') >= Len(alerts)
              /\ SubSeq(alerts', 1, Len(alerts)) = alerts]_vars

\* The one job ever enqueued has been delivered twice: two Alert rows with its
\* fields, next to the rows of the other tables.
C14_Witness ==
    /\ nupdates = 1
    /\ queue = <<>>
    /\ Len(alerts) = 2
    /\ alerts[2] = [alerts[1] EXCEPT !.id = 2]
    /\ users = {1} /\ Len(geofences) = 1 /\ Len(devices) = 1
    /\ Len(user_locations) = 1

\* C15: no step changes or removes a stored Alert row; the table only grows.
C15_AlertsAppendOnly ==
    [][/\ Len(alerts') >= Len(alerts)
       /\ \A k \in 1..Len(alerts) : alerts'[k] = alerts[k]]_vars

\* A first Alert row has outlived a second location update, the task that
\* stored a second row after it, and a device registration.
C15_Witness ==
    /\ Len(alerts) = 2
    /\ alerts[1].id = 1
    /\ alerts[2].id = 2
    /\ nupdates = 2
    /\ devices # <<>>
    /\ task.pc = "succeeded"

\* C16: (a) the queue changes only by a job appended at its tail or by the
\* worker taking its head to run it, so a queued job leaves the queue only to
\* run; (b) a task ends succeeded only with its Alert row stored and one send
\* attempted for every fetched device; under a worker that keeps running,
\* (c) the worker takes the head of the queue again and again unless the
\* queue stays empty from some point on, so that with (a) every queued job is
\* taken, and (d) a task that runs eventually ends, succeeded or failed.
C16_EveryJobRunsToItsEnd ==
    /\ [][queue' # queue =>
            \/ /\ queue # <<>>
               /\ queue' = Tail(queue)
               /\ ~TaskRunning
               /\ task'.pc \in {"created", "failed"}
            \/ /\ Len(queue') = Len(queue) + 1
               /\ SubSeq(queue', 1, Len(queue)) = queue
               /\ task' = task]_vars
    /\ [][(task.pc # "succeeded" /\ task'.pc = "succeeded") =>
            /\ task.pc = "sending"
            /\ TaskAlertCommitted
            /\ Len(task.sends) = Len(task.devices)]_vars
    /\ ([]<><<TaskStartStep>>_vars \/ <>[](queue = <<>>))
    /\ TaskRunning ~> (task.pc \in {"succeeded", "failed"})

\* Two jobs were enqueued and both were taken; the second has stored its
\* Alert row and attempted a send to the user's device.
C16_Witness ==
    /\ nupdates = 2
    /\ Len(alerts) = 2
    /\ queue = <<>>
    /\ task.pc = "sending"
    /\ Len(task.devices) = 1
    /\ Len(task.sends) = 1

\* The decimal numerals of the ids that occur.
Numerals == <<"1", "2", "3", "4", "5", "6", "7">>
Numeral(n) == IF n = 0 THEN "0" ELSE Numerals[n]

\* C17: every notification a task sends has the title "Geofence Alert", the
\* job's message as its body, and as data the numerals of the task's alert id,
\* of the job's user_id and of the job's geofence_id ("0" when there is none);
\* the task's alert id is the id of the row its own create_alert stored, and
\* does not change while the task runs.
C17_NotificationContent ==
    [][/\ (task'.sends # task.sends /\ task'.sends # <<>>) =>
              LET sent == task'.sends[Len(task'.sends)]
              IN  /\ sent.title = "Geofence Alert"
                  /\ sent.body = task.message
                  /\ sent.data.alert_id = Numeral(task.alert_id)
                  /\ sent.data.user_id = Numeral(task.user_id)
                  /\ sent.data.geofence_id =
                        IF task.geofence_id = None THEN "0"
                        ELSE Numeral(task.geofence_id)
                  /\ task.message = alerts[task.alert_id].message
       /\ DeliveryStep =>
              /\ Len(alerts') = Len(alerts) + 1
              /\ task'.alert_id = alerts'[Len(alerts')].id
              /\ task'.user_id = Head(queue).user_id
              /\ task'.geofence_id = Head(queue).geofence_id
              /\ task'.message = Head(queue).message
       /\ (TaskRunning /\ TaskRunning') =>
              /\ task'.alert_id = task.alert_id
              /\ task'.user_id = task.user_id
              /\ task'.geofence_id = task.geofence_id
              /\ task'.message = task.message]_vars

\* The second execution of the one job ever enqueued has sent a notification
\* that carries the id of the second Alert row.
C17_Witness ==
    /\ nupdates = 1
    /\ Len(alerts) = 2
    /\ task.pc = "sending"
    /\ task.sends # <<>>
    /\ task.sends[1].data = [alert_id |-> "2", user_id |-> "1", geofence_id |-> "1"]
    /\ task.sends[1].body = "User is outside geofenced area"

\* The tokens of a list of Device rows.
TokensOf(rows) == {rows[k].fcm_token : k \in 1..Len(rows)}

\* C18: the devices a task notifies are those its user owns when the task
\* fetches them: the fetch takes exactly the tokens whose row then carries the
\* task's user, whatever it carried when the job was enqueued; the fetched
\* list stays as it is; every send goes to a fetched token, and a task that
\* succeeds has sent to each of them.
C18_DevicesAsOwnedAtFetch ==
    [][/\ (task.pc = "created" /\ task'.pc = "sending") =>
              \A t \in Tokens :
                  t \in TokensOf(task'.devices) <=>
                      \E k \in 1..Len(devices) : /\ devices[k].fcm_token = t
                                                 /\ devices[k].user_id = task.user_id
       /\ (task.pc = "sending" /\ task'.pc = "sending") =>
              task'.devices = task.devices
       /\ (task'.sends # task.sends /\ task'.sends # <<>>) =>
              task'.sends[Len(task'.sends)].token \in TokensOf(task.devices)
       /\ (task.pc = "sending" /\ task'.pc = "succeeded") =>
              {task.sends[k].token : k \in 1..Len(task.sends)} = TokensOf(task.devices)]_vars

\* Every registration came after the enqueue of the one job there has been and
\* before its fetch. tokA got the first row and was registered again, last to
\* user 2; tokB was registered to user 1, the job's user. The task has sent
\* to tokB and to nothing else.
C18_Witness ==
    /\ nupdates = 1
    /\ queue = <<>>
    /\ task.pc = "sending"
    /\ task.user_id = 1
    /\ Len(devices) = 2
    /\ devices[1].fcm_token = "tokA" /\ devices[1].user_id = 2
    /\ devices[2].fcm_token = "tokB" /\ devices[2].user_id = 1
    /\ registered.fcm_token = "tokA" /\ registered.user_id = 2
    /\ task.i > Len(task.devices)
    /\ Len(task.sends) = 1
    /\ task.sends[1].token = "tokB"

\* C19: a request answered 200 reports the distance between its own
\* coordinates and the centre of its user's selected geofence, inside as that
\* distance being at most the radius, and alert as its negation, in every
\* state, whatever row is stored for the user; two answered requests with
\* equal coordinates and the same selected geofence report the same result.
C19_ResultFromRequestAlone ==
    /\ \A r \in Requests :
          (inflight[r].pc = "done" /\ inflight[r].status = 200) =>
              /\ OwnsGeofence(inflight[r].user_id)
              /\ LET gf == SelectedGeofence(inflight[r].user_id)
                     d == haversine_distance_m(inflight[r].lat, inflight[r].lon,
                                               gf.center_lat, gf.center_lon)
                 IN  /\ inflight[r].distance_m = d
                     /\ inflight[r].inside = (d <= gf.radius_m)
                     /\ inflight[r].alert = (d > gf.radius_m)
    /\ \A r1, r2 \in Requests :
          (/\ inflight[r1].pc = "done" /\ inflight[r1].status = 200
           /\ inflight[r2].pc = "done" /\ inflight[r2].status = 200
           /\ inflight[r1].lat = inflight[r2].lat
           /\ inflight[r1].lon = inflight[r2].lon
           /\ SelectedGeofence(inflight[r1].user_id).id =
                 SelectedGeofence(inflight[r2].user_id).id) =>
              /\ inflight[r1].inside = inflight[r2].inside
              /\ inflight[r1].distance_m = inflight[r2].distance_m
              /\ inflight[r1].alert = inflight[r2].alert

\* Two requests of one user were in service together (neither found a stored
\* row); r2 has written other coordinates, which are the user's stored
\* location, and r1 is answered from its own: inside, where the stored
\* location is outside.
C19_Witness ==
    /\ inflight["r1"].pc = "done" /\ inflight["r1"].status = 200
    /\ inflight["r2"].pc = "evaluate"
    /\ inflight["r1"].user_id = inflight["r2"].user_id
    /\ inflight["r1"].existing.id = None /\ inflight["r2"].existing.id = None
    /\ LET row == user_locations[LastLocationIndex(user_locations,
                                                   inflight["r1"].user_id)]
           gf == SelectedGeofence(inflight["r1"].user_id)
       IN  /\ row.lat = inflight["r2"].lat /\ row.lon = inflight["r2"].lon
           /\ inflight["r1"].inside
           /\ haversine_distance_m(row.lat, row.lon,
                                   gf.center_lat, gf.center_lon) > gf.radius_m

\* C20: in every state each Alert row names an existing user and a geofence
\* that this user owns; an Alert row is added only by a delivery, one row per
\* delivery, and the rows never outnumber the jobs taken off the queue (the
\* requests made less the jobs still queued bound these from above).
C20_AlertsConsistentWithOrigin ==
    /\ [](\A k \in 1..Len(alerts) :
             /\ alerts[k].user_id \in users
             /\ \E g \in 1..Len(geofences) :
                   /\ geofences[g].id = alerts[k].geofence_id
                   /\ geofences[g].user_id = alerts[k].user_id)
    /\ [](Len(alerts) + Len(queue) <= nupdates)
    /\ [][Len(alerts') # Len(alerts) =>
             /\ TaskStartStep
             /\ Len(alerts') = Len(alerts) + 1]_vars

\* Users 1 and 2 each own a geofence and each has an Alert row that names the
\* user's own geofence.
C20_Witness ==
    /\ users = {1, 2}
    /\ Len(geofences) = 2
    /\ geofences[1].user_id = 2 /\ geofences[2].user_id = 1
    /\ Len(alerts) = 2
    /\ alerts[1].user_id = 1 /\ alerts[1].geofence_id = 2
    /\ alerts[2].user_id = 2 /\ alerts[2].geofence_id = 1

=============================================================================
